---------------------------- MODULE Spec2Model ----------------------------
(***************************************************************************)
(* Smart Meal Planner: the recipe search flow of the React frontend        *)
(* (SearchBar -> HomePage.handleSearch -> recipeService -> axios client    *)
(* with its interceptors) against the recipe index and ranker of the       *)
(* backend.  The frontend is translated from the sources under             *)
(* src/; the backend (routes/recipes.py, services/recommendation_engine.py)*)
(* is not among those sources and is modelled from spec.md sections 3-7.   *)
(***************************************************************************)
EXTENDS Integers, Sequences, FiniteSets, TLC

(***************************************************************************)
(* Bounds of the model.                                                    *)
(***************************************************************************)
\* longest text of the search input / of a query given to the API client
MaxLen == 2
\* resolution of a similarity score: the score s/ScoreScale, s in 0..ScoreScale
ScoreScale == 200

\* JavaScript's undefined / null, and an absent JSON field, where the value
\* would be a string
NULL == "null"
\* null where the value would be a record: a response body that is JSON
\* null, a state that holds no object yet
NullBody == [null |-> TRUE]
\* an optional integer: None when undefined, Some(v) otherwise
None == <<>>
Some(v) == <<v>>

(***************************************************************************)
(* Text.  A text is a sequence of characters.  The alphabet has white      *)
(* space, letters of either case and nothing else; a word is a maximal     *)
(* run of letters.                                                         *)
(***************************************************************************)
WhiteSpace == {" "}
\* the characters that are typed: a space, P (the capital of a letter of the
\* corpus) and t (the stop word of the tokenizer)
Chars == {" ", "P", "t"}

\* String.prototype.toLowerCase on one character
LowerChar(c) == IF c = "P" THEN "p" ELSE IF c = "C" THEN "c" ELSE c

RECURSIVE TrimStart(_)
TrimStart(s) ==
    IF s # <<>> /\ Head(s) \in WhiteSpace THEN TrimStart(Tail(s)) ELSE s

RECURSIVE TrimEnd(_)
TrimEnd(s) ==
    IF s # <<>> /\ s[Len(s)] \in WhiteSpace
    THEN TrimEnd(SubSeq(s, 1, Len(s) - 1))
    ELSE s

\* String.prototype.trim
Trim(s) == TrimEnd(TrimStart(s))

\* all texts of at most n characters
TextsUpTo(n) == UNION {[1..k -> Chars] : k \in 0..n}
Texts == TextsUpTo(MaxLen)


(***************************************************************************)
(* The recipe corpus and the index (spec.md 3, 4.1).                       *)
(***************************************************************************)
\* a recipe name written with one-letter words: c(hicken) s(oup) ...
Name(a, b) == <<a, " ", b>>

\* the catalog the service loads: the example corpus of spec.md 8, plus a
\* fourth recipe whose name is one word of another
Catalog ==
    << [id |-> 1, name |-> Name("c", "s"), cooking_time |-> 30,
        difficulty |-> "easy", dietary_tags |-> {},
        cuisine_tags |-> {"american"}],
       [id |-> 2, name |-> Name("v", "p"), cooking_time |-> 20,
        difficulty |-> "easy", dietary_tags |-> {"vegetarian"},
        cuisine_tags |-> {"italian"}],
       [id |-> 3, name |-> Name("b", "k"), cooking_time |-> 45,
        difficulty |-> "hard", dietary_tags |-> {},
        cuisine_tags |-> {"american"}],
       [id |-> 4, name |-> <<"p">>, cooking_time |-> 20,
        difficulty |-> "medium", dietary_tags |-> {},
        cuisine_tags |-> {"italian", "american"}] >>

\* what the service may find at its corpus path: nothing readable, or the
\* catalog
Corpora == {<<>>, Catalog}

StopWords == {<<"t">>}

IsAlnum(c) == c \notin WhiteSpace

\* the words of a text: its maximal runs of alphanumeric characters
RECURSIVE SplitWords(_, _)
SplitWords(s, cur) ==
    IF s = <<>>
    THEN IF cur = <<>> THEN <<>> ELSE <<cur>>
    ELSE IF IsAlnum(Head(s))
         THEN SplitWords(Tail(s), Append(cur, Head(s)))
         ELSE IF cur = <<>>
              THEN SplitWords(Tail(s), <<>>)
              ELSE <<cur>> \o SplitWords(Tail(s), <<>>)

Lower(s) == [i \in 1..Len(s) |-> LowerChar(s[i])]

\* the sequence ws without its elements in drop
RECURSIVE SelectWords(_, _)
SelectWords(ws, drop) ==
    IF ws = <<>> THEN <<>>
    ELSE IF Head(ws) \in drop
         THEN SelectWords(Tail(ws), drop)
         ELSE <<Head(ws)>> \o SelectWords(Tail(ws), drop)

\* tokenizer of spec.md 4.1: lowercase, split on non-alphanumeric
\* boundaries, drop the stop words, no stemming
Tokenize(text) == SelectWords(SplitWords(Lower(text), <<>>), StopWords)

\* term frequency of word w in a token sequence
TermFreq(w, toks) == Cardinality({i \in 1..Len(toks) : toks[i] = w})

\* the terms of a token sequence
Terms(toks) == {toks[j] : j \in 1..Len(toks)}

\* smoothed inverse document frequency ln((1+N)/(1+df)) + 1, in quarters,
\* rounded, for corpora of at most four recipes
IdfQuarters(df, n) ==
    IF df >= n THEN 4
    ELSE IF n = 2 THEN 6
    ELSE IF n = 3 THEN (IF df = 1 THEN 7 ELSE 5)
    ELSE (IF df = 1 THEN 8 ELSE IF df = 2 THEN 6 ELSE 5)

\* the index builder (spec.md 4.1): the vocabulary, the weight of each term
\* and, for every recipe, its vector of tf x idf weights over the vocabulary
BuildIndex(c) ==
    LET toks  == [i \in 1..Len(c) |-> Tokenize(c[i].name)]
        vocab == UNION {Terms(toks[i]) : i \in 1..Len(c)}
        df    == [w \in vocab |->
                    Cardinality({i \in 1..Len(c) : w \in Terms(toks[i])})]
        idf   == [w \in vocab |-> IdfQuarters(df[w], Len(c))]
    IN  [built   |-> c # <<>>,
         vocab   |-> vocab,
         idf     |-> idf,
         vectors |-> [i \in 1..Len(c) |->
                         [w \in vocab |-> TermFreq(w, toks[i]) * idf[w]]]]

\* the query vector: terms outside the vocabulary are dropped
QueryVector(index, qtoks) ==
    [w \in index.vocab |-> TermFreq(w, qtoks) * index.idf[w]]

\* sum over the terms ws of u[w] * v[w]
RECURSIVE SumOver(_, _, _)
SumOver(ws, u, v) ==
    IF ws = {} THEN 0
    ELSE LET w == CHOOSE x \in ws : TRUE
         IN  u[w] * v[w] + SumOver(ws \ {w}, u, v)

Dot(u, v) == SumOver(DOMAIN u, u, v)

\* the largest r in lo..hi with r * r <= x
RECURSIVE IsqrtIn(_, _, _)
IsqrtIn(x, lo, hi) ==
    IF lo >= hi THEN lo
    ELSE LET mid == (lo + hi + 1) \div 2
         IN  IF mid * mid <= x THEN IsqrtIn(x, mid, hi)
             ELSE IsqrtIn(x, lo, mid - 1)

\* mutant of Similarity: no zero-norm convention; the quotient by a zero norm
\* is not a score (written -1)
SimilarityNoZeroNorm(q, d) ==
    LET nq == Dot(q, q)
        nd == Dot(d, d)
        qd == Dot(q, d)
    IN  IF nq * nd = 0 THEN 0 - 1
        ELSE IsqrtIn((ScoreScale * ScoreScale * qd * qd) \div (nq * nd),
                     0, ScoreScale)

\* cosine similarity dot(q,d) / (|q| |d|) of two vectors in units of
\* 1/ScoreScale, rounded down; a zero-norm query or document scores 0
\* (spec.md 4.2)
Similarity(q, d) ==
    LET nq == Dot(q, q)
        nd == Dot(d, d)
        qd == Dot(q, d)
    IN  IF nq = 0 \/ nd = 0 THEN 0
        ELSE IsqrtIn((ScoreScale * ScoreScale * qd * qd) \div (nq * nd),
                     0, ScoreScale)

(***************************************************************************)
(* Structured filters (spec.md 4.2).  An absent filter is NULL.            *)
(***************************************************************************)
\* str.lower() on the difficulty values that occur
LowerStr(s) == IF s = "Easy" THEN "easy" ELSE IF s = "HARD" THEN "hard" ELSE s

\* the proper substrings that occur among the cuisine values
ProperSubstrings == {<<"ital", "italian">>}
IsSubstring(needle, tag) == needle = tag \/ <<needle, tag>> \in ProperSubstrings

PassesDiet(r, f) ==
    f.dietary_restrictions = NULL \/ f.dietary_restrictions \in r.dietary_tags
PassesDifficulty(r, f) ==
    f.difficulty = NULL \/ LowerStr(f.difficulty) = LowerStr(r.difficulty)
PassesCuisine(r, f) ==
    f.cuisine = NULL \/ \E t \in r.cuisine_tags : IsSubstring(f.cuisine, t)

\* max cooking time excludes the recipes strictly above the bound
PassesTime(r, f) ==
    (f.max_cooking_time = None) \/ (r.cooking_time <= f.max_cooking_time[1])

\* mutant of Passes: one satisfied filter is enough
PassesAny(r, f) ==
    \/ PassesDiet(r, f) /\ f.dietary_restrictions # NULL
    \/ PassesTime(r, f) /\ f.max_cooking_time # None
    \/ PassesDifficulty(r, f) /\ f.difficulty # NULL
    \/ PassesCuisine(r, f) /\ f.cuisine # NULL
    \/ /\ f.dietary_restrictions = NULL /\ f.max_cooking_time = None
       /\ f.difficulty = NULL /\ f.cuisine = NULL

\* the conjunctive filter; meal_type is advisory and not used to filter
Passes(r, f) ==
    /\ PassesDiet(r, f)
    /\ PassesTime(r, f)
    /\ PassesDifficulty(r, f)
    /\ PassesCuisine(r, f)

(***************************************************************************)
(* The ranker (spec.md 4.2).                                               *)
(***************************************************************************)
\* the score of every indexed recipe for a query
Scores(index, query) ==
    LET q == QueryVector(index, Tokenize(query))
    IN  [i \in DOMAIN index.vectors |-> Similarity(q, index.vectors[i])]

\* i is ranked before j: higher score, ties by corpus order
Before(scores, i, j) ==
    \/ scores[i] > scores[j]
    \/ scores[i] = scores[j] /\ i < j

\* the candidates in ranked order
RECURSIVE Rank(_, _)
Rank(scores, cands) ==
    IF cands = {} THEN <<>>
    ELSE LET best == CHOOSE i \in cands :
                        \A j \in cands \ {i} : Before(scores, i, j)
         IN  <<best>> \o Rank(scores, cands \ {best})

\* a recipe with its score attached: what goes on the wire
ScoredResult(r, score) ==
    [id |-> r.id, name |-> r.name, cooking_time |-> r.cooking_time,
     difficulty |-> r.difficulty, dietary_tags |-> r.dietary_tags,
     cuisine_tags |-> r.cuisine_tags, similarity_score |-> score]

Take(s, n) == SubSeq(s, 1, IF n < Len(s) THEN n ELSE Len(s))

\* mutant of TopN: no truncation to the requested count
TopNAll(ranked, n) == ranked

TopN(ranked, n) == Take(ranked, n)

\* recommend: score every recipe, keep those passing the filters, rank, cut
\* to the first n
Recommend(c, index, query, n, f) ==
    LET scores == Scores(index, query)
        cands  == {i \in 1..Len(c) : Passes(c[i], f)}
        top    == TopN(Rank(scores, cands), n)
    IN  [k \in 1..Len(top) |-> ScoredResult(c[top[k]], scores[top[k]])]

NoFilters ==
    [dietary_restrictions |-> NULL, max_cooking_time |-> None,
     difficulty |-> NULL, cuisine |-> NULL, meal_type |-> NULL]

\* quick search: the same scoring path with no structured filter
QuickSearch(c, index, query, limit) ==
    Recommend(c, index, query, limit, NoFilters)

\* mutant of GetById: an unknown identifier yields an empty record
GetByIdEmptyRecord(corpus, id) ==
    IF \E i \in 1..Len(corpus) : corpus[i].id = id
    THEN <<corpus[CHOOSE i \in 1..Len(corpus) : corpus[i].id = id]>>
    ELSE <<[id |-> id]>>

\* detail lookup: the recipe with this identifier, if the corpus has one
GetById(corpus, id) ==
    IF \E i \in 1..Len(corpus) : corpus[i].id = id
    THEN <<corpus[CHOOSE i \in 1..Len(corpus) : corpus[i].id = id]>>
    ELSE <<>>


(***************************************************************************)
(* The HTTP interface of the recipe routes (spec.md 6, 7).                 *)
(***************************************************************************)
\* an outcome of a request, as axios sees it: a response with a status and
\* data, or no response at all (status 0 stands for error.response undefined)
Response(status, data) == [response |-> TRUE, status |-> status, data |-> data]
NoResponse == [response |-> FALSE, status |-> 0, data |-> [detail |-> "network"]]

Detail(text) == [detail |-> text]

\* POST /recipes/recommend: 503 without a built index, a validation error
\* for an empty query, the ranked results otherwise.  The order of the two
\* rejections is not fixed by spec.md: either may answer a request that
\* deserves both.
ServeRecommend(c, index, req) ==
    (IF index.built THEN {}
     ELSE {Response(503, Detail("index not built"))})
    \cup
    (IF Trim(req.query) # <<>> THEN {}
     ELSE {Response(422, Detail("empty query"))})
    \cup
    (IF index.built /\ Trim(req.query) # <<>>
     THEN {Response(200, [recommendations |->
               Recommend(c, index, req.query, req.n, req.filters)])}
     ELSE {})

\* GET /recipes/search/quick: the list itself is the response data
ServeQuick(c, index, req) ==
    (IF index.built THEN {}
     ELSE {Response(503, Detail("index not built"))})
    \cup
    (IF Trim(req.query) # <<>> THEN {}
     ELSE {Response(422, Detail("empty query"))})
    \cup
    (IF index.built /\ Trim(req.query) # <<>>
     THEN {Response(200, QuickSearch(c, index, req.query, req.n))}
     ELSE {})

\* GET /recipes/{id}
ServeDetail(c, index, req) ==
    IF ~index.built THEN {Response(503, Detail("index not built"))}
    ELSE IF GetById(c, req.id) = <<>>
         THEN {Response(404, Detail("recipe not found"))}
         ELSE {Response(200, GetById(c, req.id)[1])}

Serve(c, index, req) ==
    IF req.fn = "recommend" THEN ServeRecommend(c, index, req)
    ELSE IF req.fn = "quick" THEN ServeQuick(c, index, req)
    ELSE ServeDetail(c, index, req)

\* failures that do not come from the recipe routes: the connection fails,
\* the server fails, the token is refused
Faults ==
    {NoResponse, Response(500, Detail("server error")),
     Response(401, Detail("unauthorized"))}

\* answers of a server other than the ranker specified here (a stub, another
\* version): nothing found, and a body without the list
Stubs ==
    {Response(200, [recommendations |-> <<>>]), Response(200, Detail("ok"))}

Outcomes(c, index, req) ==
    Serve(c, index, req) \cup Faults
    \cup (IF req.fn = "recommend" /\ req.owner = "HomePage" THEN Stubs ELSE {})

\* axios resolves a response whose status is 2xx and rejects the rest
Resolves(o) == o.response /\ o.status >= 200 /\ o.status < 300


(***************************************************************************)
(* The frontend: state.                                                    *)
(***************************************************************************)
VARIABLES
    query,         \* SearchBar: the text of the search input
    recipes,       \* HomePage: the recipes on display
    error,         \* HomePage: the error message, or NULL
    loading,       \* HomePage: a search is in progress
    hasSearched,   \* HomePage: a search was started since the page mounted
    mounted,       \* HomePage is mounted in the document
    token,         \* localStorage 'token', or NULL
    storedUser,    \* localStorage 'user', or NULL
    location,      \* window.location: the path the document is (being) loaded from
    net,           \* the requests in flight, in the order they were sent
    corpus,        \* backend: the corpus the service loaded at startup
    index,         \* backend: the index built from it at startup
    last,          \* the handler that ran last, with what it was given
    apiResult,     \* a caller of recipeService: its call in progress or settled
    authUser,      \* App: the user of the AuthContext, or NULL
    navigating,    \* window.location.href was assigned: the document is being replaced
    page,          \* the routed page that is mounted besides HomePage, or "none"
    loginPage,     \* LoginPage: its state
    detail,        \* RecipeDetail: its state and the position of handleAddToMealPlan
    planner,       \* MealPlannerPage: its state
    shopping       \* ShoppingPage: its state

vars == <<query, recipes, error, loading, hasSearched, mounted, token,
          storedUser, location, net, corpus, index, last, apiResult,
          authUser, navigating, page, loginPage, detail, planner, shopping>>

\* the state of the application outside the search page
appVars == <<authUser, navigating, page, loginPage, detail, planner, shopping>>

homeVars == <<query, recipes, error, loading, hasSearched, mounted>>

MsgUnavailable == "Recipe data is not available. Please ensure the backend is running with the correct data path."
MsgGeneric == "Failed to get recommendations. Please try again."
MsgPlanFailed == "Failed to load meal plan. Please try again."

Tokens == {NULL, "jwt"}

\* n_recommendations when the caller's filters give none (or give 0)
DefaultN == 6
\* limit of quickSearch when the caller gives none
DefaultLimit == 6

\* what the handler that ran last was given: the text of the input (a
\* submit), the calls of onSearch it made, the
\* outcome it received, whether the recipe routes produced that outcome and
\* whether the index was built when they did
Event(op, text, calls, o, served, built) ==
    [op |-> op, text |-> text, onSearch |-> calls, outcome |-> o,
     served |-> served, built |-> built]
\* no handler has run yet
NoEvent == Event("none", <<>>, <<>>, NoResponse, FALSE, FALSE)

Idle == [state |-> "idle"]

(***************************************************************************)
(* The API client (services/api.js).                                       *)
(***************************************************************************)
\* mutant of WithAuth: no request interceptor
WithoutAuth(req, tok) == req

\* the request interceptor: the Authorization header carries the stored
\* token, if there is one
WithAuth(req, tok) == [req EXCEPT !.auth = tok]

Request(fn, q, n, f, id, owner) ==
    [fn |-> fn, query |-> q, n |-> n, filters |-> f, id |-> id,
     auth |-> NULL, owner |-> owner]

\* mutant of OrDefault: the count of the caller is ignored
OrDefaultAlways(opt, dflt) == dflt

\* filters.n_recommendations || 6
OrDefault(opt, dflt) == IF opt = None \/ opt = Some(0) THEN dflt ELSE opt[1]

\* recipeService.getRecommendations: the request it posts
GetRecommendationsRequest(q, n, f, owner) ==
    Request("recommend", q, OrDefault(n, DefaultN), f, 0, owner)

\* recipeService.quickSearch: limit = 6 applies when limit is undefined
QuickSearchRequest(q, limit, owner) ==
    Request("quick", q, IF limit = None THEN DefaultLimit ELSE limit[1],
            NoFilters, 0, owner)

\* recipeService.getRecipeDetail
GetRecipeDetailRequest(id, owner) ==
    Request("detail", <<>>, DefaultN, NoFilters, id, owner)

\* the response interceptor: a 401 clears the session and sends the browser
\* to /login; the error is rejected to the caller either way
Unauthorized(o) == o.response /\ o.status = 401
\* mutant of TokenAfter: every failure ends the session
TokenAfterAnyError(o) == IF Resolves(o) THEN token ELSE NULL

TokenAfter(o) == IF Unauthorized(o) THEN NULL ELSE token
LocationAfter(o) == IF Unauthorized(o) THEN "/login" ELSE location
NavigatingAfter(o) == Unauthorized(o) \/ navigating

\* the sequence s without its i-th element
Without(s, i) == SubSeq(s, 1, i - 1) \o SubSeq(s, i + 1, Len(s))


(***************************************************************************)
(* SearchBar and HomePage.                                                 *)
(***************************************************************************)
\* mutant of SubmitCalls: no check of the trimmed text
SubmitCallsUnguarded(q) == <<Trim(q)>>

\* SearchBar.handleSubmit: the calls of onSearch it makes for the text q
SubmitCalls(q) == IF Trim(q) # <<>> THEN <<Trim(q)>> ELSE <<>>

\* the submit button is disabled while loading or while the text is blank
SubmitDisabled == loading \/ Trim(query) = <<>>

\* the requests HomePage.handleSearch posts for these calls of onSearch:
\* getRecommendations(query) with no filters
SearchRequests(calls) ==
    [k \in 1..Len(calls) |->
        WithAuth(GetRecommendationsRequest(calls[k], None, NoFilters, "HomePage"),
                 token)]

\* mutant of ErrorOnStart: the error of the previous search is kept
ErrorKept(err) == err

\* the error state when handleSearch starts: setError(null)
ErrorOnStart(err) == NULL

\* SearchBar.handleSubmit, with HomePage.handleSearch up to its await
HandleSubmit ==
    LET calls == SubmitCalls(query)
    IN  /\ last' = Event("handleSubmit", query, calls, NoResponse, FALSE, FALSE)
        /\ IF calls # <<>>
           THEN /\ loading' = TRUE
                /\ error' = ErrorOnStart(error)
                /\ hasSearched' = TRUE
                /\ net' = net \o SearchRequests(calls)
           ELSE UNCHANGED <<loading, error, hasSearched, net>>
        /\ UNCHANGED <<query, recipes, mounted, token, storedUser, location,
                       corpus, index, apiResult, appVars>>

\* the user presses the submit button
ClickSubmit == mounted /\ ~SubmitDisabled /\ HandleSubmit

\* a submit event is dispatched to the form by a script or a test, whatever
\* the text of the input; one search at a time
SubmitEvent == mounted /\ ~loading /\ HandleSubmit

\* the user types a character into the search input, or deletes the last one
SetQuery ==
    /\ mounted
    /\ \/ \E c \in Chars : Len(query) < MaxLen /\ query' = Append(query, c)
       \/ query # <<>> /\ query' = SubSeq(query, 1, Len(query) - 1)
    /\ last' = Event("setQuery", <<>>, <<>>, NoResponse, FALSE, FALSE)
    /\ UNCHANGED <<recipes, error, loading, hasSearched, mounted, token,
                   storedUser, location, net, corpus, index, apiResult,
                   appVars>>

\* data.recommendations || []
RecommendationsOrEmpty(data) ==
    IF "recommendations" \in DOMAIN data THEN data.recommendations ELSE <<>>

\* mutant of ErrorMessage: every failure gets the generic message
ErrorMessageGeneric(o) == MsgGeneric

\* the message of the catch block of handleSearch
ErrorMessage(o) ==
    IF o.response /\ o.status = 503 THEN MsgUnavailable ELSE MsgGeneric

\* mutant of RetryRequests: a 503 is retried once more
RetryOn503(req, o) ==
    IF o.response /\ o.status = 503 THEN <<WithAuth(req, TokenAfter(o))>> ELSE <<>>

\* the requests handleSearch sends again after a failure: none
RetryRequests(req, o) == <<>>

\* a request of HomePage is answered: the response interceptor, then the
\* rest of handleSearch
RespondHome ==
    \E i \in 1..Len(net) : \E o \in Outcomes(corpus, index, net[i]) :
        LET req == net[i]
        IN  /\ req.owner = "HomePage"
            /\ token' = TokenAfter(o)
            /\ storedUser' = IF Unauthorized(o) THEN NULL ELSE storedUser
            /\ location' = LocationAfter(o)
            /\ IF Resolves(o)
               THEN /\ recipes' = RecommendationsOrEmpty(o.data)
                    /\ error' = error
                    /\ net' = Without(net, i)
               ELSE /\ error' = ErrorMessage(o)
                    /\ recipes' = <<>>
                    /\ net' = Without(net, i) \o RetryRequests(req, o)
            /\ loading' = FALSE
            /\ last' = Event("response", <<>>, <<>>, o,
                             o \in Serve(corpus, index, req), index.built)
            /\ UNCHANGED <<query, hasSearched, mounted, corpus, index,
                           apiResult, appVars>>

\* LoginPage as constructed
FreshLogin == [error |-> "", loading |-> FALSE]

\* what a run of handleAddToMealPlan holds in its closure: the recipe, the
\* selected day and meal and the onAddToMealPlan prop of the render it was
\* started from
NoRun ==
    [recipe |-> 0, day |-> "Monday", meal |-> "dinner", callback |-> FALSE,
     attached |-> FALSE]

\* RecipeDetail as constructed (recipe 0: no recipe, nothing rendered),
\* handleAddToMealPlan not running
FreshDetail ==
    [recipe |-> 0, onAddToMealPlan |-> FALSE, showMealSelector |-> FALSE,
     selectedDay |-> "Monday", selectedMeal |-> "dinner", adding |-> FALSE,
     pc |-> "idle", run |-> NoRun]

\* MealPlannerPage as constructed
FreshPlanner ==
    [mealPlan |-> NullBody, loading |-> TRUE, error |-> NULL, weekOffset |-> 0]

\* ShoppingPage as constructed
FreshShopping ==
    [shoppingList |-> NullBody, mealPlan |-> NullBody, loading |-> TRUE,
     error |-> NULL]

\* HomePage as constructed
FreshHome ==
    /\ query' = <<>>
    /\ recipes' = <<>>
    /\ error' = NULL
    /\ loading' = FALSE
    /\ hasSearched' = FALSE

\* the document is replaced by the one loaded from /login: HomePage is gone
\* and its requests are aborted
Unload ==
    /\ mounted /\ location = "/login"
    /\ mounted' = FALSE
    /\ FreshHome
    /\ net' = <<>>
    /\ last' = Event("unload", <<>>, <<>>, NoResponse, FALSE, FALSE)
    /\ UNCHANGED <<token, storedUser, location, corpus, index,
                   apiResult, appVars>>

\* the user follows the Home link: a new HomePage is mounted
NavigateHome ==
    /\ ~mounted
    /\ mounted' = TRUE
    /\ location' = "/"
    /\ FreshHome
    /\ last' = Event("navigate", <<>>, <<>>, NoResponse, FALSE, FALSE)
    /\ UNCHANGED <<token, storedUser, net, corpus, index, apiResult,
                   appVars>>

\* the operator restarts the service with another corpus path
Restart ==
    /\ \E c \in Corpora \ {corpus} : corpus' = c /\ index' = BuildIndex(c)
    /\ UNCHANGED <<query, recipes, error, loading, hasSearched, mounted, token,
                   storedUser, location, net, last,
                   apiResult, appVars>>

\* mutant of MatchPercent: without the default for a missing score the
\* product is not a number (written -1)
MatchPercentNoDefault(r) ==
    IF "similarity_score" \notin DOMAIN r THEN 0 - 1
    ELSE (200 * r.similarity_score + ScoreScale) \div (2 * ScoreScale)

\* RecipeCard: ((recipe.similarity_score || 0) * 100).toFixed(0), the score
\* being similarity_score / ScoreScale; toFixed rounds to the nearest
\* integer, a half upwards
MatchPercent(r) ==
    LET score == IF "similarity_score" \in DOMAIN r THEN r.similarity_score
                 ELSE 0
    IN  (200 * score + ScoreScale) \div (2 * ScoreScale)

\* what HomePage renders
ShowsError == mounted /\ error # NULL
ShowsLoading == mounted /\ loading
ShowsResults == mounted /\ ~loading /\ Len(recipes) > 0
ShowsEmptyState ==
    mounted /\ ~loading /\ hasSearched /\ Len(recipes) = 0 /\ error = NULL

InitHome ==
    /\ query = <<>>
    /\ recipes = <<>>
    /\ error = NULL
    /\ loading = FALSE
    /\ hasSearched = FALSE
    /\ mounted = TRUE
    /\ location = "/"
    /\ net = <<>>
    /\ last = NoEvent
    /\ apiResult = Idle

InitSession ==
    /\ token \in Tokens
    /\ storedUser = (IF token = NULL THEN NULL ELSE "user")

\* App after its mount effect: the AuthContext user is the stored user; no
\* routed page besides HomePage
InitApp ==
    /\ authUser = storedUser
    /\ navigating = FALSE
    /\ page = "none"
    /\ loginPage = FreshLogin
    /\ detail = FreshDetail
    /\ planner = FreshPlanner
    /\ shopping = FreshShopping

Init ==
    /\ InitHome
    /\ InitSession
    /\ InitApp
    /\ corpus \in Corpora
    /\ index = BuildIndex(corpus)

\* the search page as the user drives it
Next ==
    \/ SetQuery
    \/ ClickSubmit
    \/ RespondHome
    \/ Unload
    \/ NavigateHome
    \/ Restart

Spec == Init /\ [][Next]_vars

\* the search form driven by submit events, whatever the text of the input
NextHandler ==
    \/ SetQuery
    \/ SubmitEvent
    \/ RespondHome
    \/ Unload
    \/ NavigateHome
    \/ Restart

SpecHandler == Init /\ [][NextHandler]_vars


(***************************************************************************)
(* recipeService called directly: getRecommendations with filters,         *)
(* quickSearch and getRecipeDetail have no caller on the search page.      *)
(***************************************************************************)
\* the queries a caller passes: the typed texts and the recipe names
ApiQueries == Texts \cup {Catalog[i].name : i \in 1..Len(Catalog)}

NInputs == {None, Some(2)}

FilterInputs ==
    [dietary_restrictions : {NULL, "vegetarian"},
     max_cooking_time : {None, Some(20)},
     difficulty : {NULL, "Easy", "HARD"},
     cuisine : {NULL, "ital"},
     meal_type : {NULL}]

\* identifiers asked for: those of the catalog and two it does not have
IdInputs == {Catalog[i].id : i \in 1..Len(Catalog)} \cup {0, 9}

\* a call of recipeService as its caller made it: the function, the query,
\* the count (n_recommendations of the filters, or the limit) and the filters
Called(fn, q, n, f) == [op |-> fn, query |-> q, n |-> n, filters |-> f]

ApiUnchanged ==
    UNCHANGED <<query, recipes, error, loading, hasSearched, mounted, token,
                storedUser, location, corpus, index, apiResult, appVars>>

CallGetRecommendations ==
    /\ apiResult = Idle /\ net = <<>>
    /\ \E q \in ApiQueries, n \in NInputs, f \in FilterInputs :
          /\ net' = <<WithAuth(GetRecommendationsRequest(q, n, f, "caller"), token)>>
          /\ last' = Called("getRecommendations", q, n, f)
    /\ ApiUnchanged

CallQuickSearch ==
    /\ apiResult = Idle /\ net = <<>>
    /\ \E q \in ApiQueries, n \in NInputs :
          /\ net' = <<WithAuth(QuickSearchRequest(q, n, "caller"), token)>>
          /\ last' = Called("quickSearch", q, n, NoFilters)
    /\ ApiUnchanged

CallGetRecipeDetail ==
    /\ apiResult = Idle /\ net = <<>>
    /\ \E id \in IdInputs :
          /\ net' = <<WithAuth(GetRecipeDetailRequest(id, "caller"), token)>>
          /\ last' = Called("getRecipeDetail", <<>>, None, NoFilters)
    /\ ApiUnchanged

\* how a call of recipeService ended: with response.data returned, or with
\* the error thrown; the corpus and index that served it are kept beside it
Settled(req, o, c, idx) ==
    [state |-> "settled", req |-> req, returned |-> Resolves(o),
     outcome |-> o, served |-> o \in Serve(c, idx, req), corpus |-> c,
     built |-> idx.built]

\* a request of the caller is answered: the response interceptor, then the
\* service function returns response.data or throws
RespondCaller ==
    \E i \in 1..Len(net) : \E o \in Outcomes(corpus, index, net[i]) :
        /\ net[i].owner = "caller"
        /\ token' = TokenAfter(o)
        /\ storedUser' = IF Unauthorized(o) THEN NULL ELSE storedUser
        /\ location' = LocationAfter(o)
        /\ net' = Without(net, i)
        /\ apiResult' = Settled(net[i], o, corpus, index)
        /\ UNCHANGED <<query, recipes, error, loading, hasSearched, mounted,
                       corpus, index, last, appVars>>

\* the caller has taken the result
ApiDone ==
    /\ apiResult # Idle
    /\ apiResult' = Idle
    /\ last' = NoEvent
    /\ UNCHANGED <<query, recipes, error, loading, hasSearched, mounted, token,
                   storedUser, location, net, corpus, index, appVars>>

InitApi ==
    /\ InitHome
    /\ InitSession
    /\ InitApp
    /\ corpus \in Corpora
    /\ index = BuildIndex(corpus)

NextApi ==
    \/ CallGetRecommendations
    \/ CallQuickSearch
    \/ CallGetRecipeDetail
    \/ RespondCaller
    \/ ApiDone
    \/ Restart

SpecApi == InitApi /\ [][NextApi]_vars


(***************************************************************************)
(* Dates.  A date is a day number, day 0 being a Monday; an instant is a   *)
(* local date, the local hour and the zone's offset east of UTC in hours.  *)
(***************************************************************************)
days == <<"Monday", "Tuesday", "Wednesday", "Thursday", "Friday", "Saturday",
          "Sunday">>
mealTypes == <<"breakfast", "lunch", "dinner">>

\* local hours and zone offsets: noon and midnight UTC, just after midnight
\* east of UTC, late evening west of it
Zones ==
    {[hour |-> 12, tz |-> 0], [hour |-> 0, tz |-> 0], [hour |-> 0, tz |-> 5],
     [hour |-> 23, tz |-> 0 - 8]}

\* the instants new Date() may return: every day of one week in every zone
Clock == {[day |-> d, hour |-> z.hour, tz |-> z.tz] : d \in 7..13, z \in Zones}

\* Date.prototype.getDay of a local date: 0 for Sunday, 1 for Monday, ...
GetDay(d) == (d + 1) % 7

\* Array.prototype.indexOf, 0-based, -1 when absent
IndexOf(seq, x) ==
    IF \E i \in 1..Len(seq) : seq[i] = x
    THEN (CHOOSE i \in 1..Len(seq) : seq[i] = x) - 1
    ELSE 0 - 1

\* toISOString().split('T')[0] of the local date d at the local time of now:
\* the date in UTC
ToISODate(d, now) == (d * 24 + now.hour - now.tz) \div 24

\* monday.setDate(today.getDate() - today.getDay() + 1 + offset * 7)
MondayOf(now, offset) == now.day - GetDay(now.day) + 1 + offset * 7

\* MealPlannerPage.getWeekDates
GetWeekDates(now, offset) ==
    [start  |-> ToISODate(MondayOf(now, offset), now),
     end    |-> ToISODate(MondayOf(now, offset) + 6, now),
     monday |-> MondayOf(now, offset)]

\* handleAddToMealPlan: the date string of the selected day
MealDate(now, selectedDay) ==
    ToISODate(MondayOf(now, 0) + IndexOf(days, selectedDay), now)

(***************************************************************************)
(* RecipeDetail and handleAddToMealPlan.                                   *)
(***************************************************************************)
\* a request of mealPlanService, shoppingService or authService
\* (live: the component that sent it is still mounted)
ApiRequest(fn, owner, body) ==
    [fn |-> fn, owner |-> owner, auth |-> NULL, body |-> body, live |-> TRUE]

\* mealPlanService.getCurrentWeekPlan
GetCurrentWeekPlanRequest(owner) == ApiRequest("getCurrentWeekPlan", owner, [none |-> TRUE])

\* mealPlanService.addMeal
AddMealRequest(planId, recipeId, dayOfWeek, mealType, date, owner) ==
    ApiRequest("addMeal", owner,
               [plan_id |-> planId, recipe_id |-> recipeId,
                day_of_week |-> dayOfWeek, meal_type |-> mealType,
                date |-> date])

\* the plan identifiers the server hands out
PlanIds == {1, 2}

\* the answers to GET /meal-plans/current: a plan, a body without plan_id,
\* null, and the failures
PlanOutcomes ==
    {Response(200, [plan_id |-> p, meals |-> <<>>]) : p \in PlanIds}
    \cup {Response(200, Detail("ok")), Response(200, NullBody),
          Response(404, Detail("no plan"))}
    \cup Faults

\* the answers to POST /meal-plans/{id}/add-meal
AddMealOutcomes ==
    {Response(200, Detail("added")), Response(404, Detail("no plan"))} \cup Faults

\* plan.plan_id: 0 stands for undefined
PlanIdOf(data) == IF "plan_id" \in DOMAIN data THEN data.plan_id ELSE 0

\* the run of handleAddToMealPlan that a click starts, and its record
Started(run) ==
    [op |-> "handleAddToMealPlan", run |-> run, planOutcome |-> NoResponse,
     planSettled |-> FALSE, today |-> [day |-> 0, hour |-> 0, tz |-> 0],
     addMeals |-> 0, addMealOutcome |-> NoResponse, onAdded |-> 0,
     ended |-> FALSE]

\* mutant of ContinuesAfterPlan: the failure of getCurrentWeekPlan is ignored
ContinuesAlways(o) == TRUE

\* the try block goes on after the first await: the call resolved, and
\* plan.plan_id can be read (plan is not null)
ContinuesAfterPlan(o) == Resolves(o) /\ o.data # NullBody

\* the record of the last run is kept until the user touches RecipeDetail
\* again
LastAfterEdit == IF detail.pc = "idle" THEN NoEvent ELSE last

\* the user opens a recipe: HomePage.handleRecipeClick mounts RecipeDetail;
\* a parent may pass onAddToMealPlan (HomePage passes none)
SelectRecipe ==
    /\ mounted /\ detail.recipe = 0
    /\ \E r \in {1, 2}, cb \in BOOLEAN :
          detail' = [FreshDetail EXCEPT !.recipe = r, !.onAddToMealPlan = cb,
                                        !.pc = detail.pc, !.run = detail.run]
    /\ last' = LastAfterEdit
    /\ UNCHANGED <<query, recipes, error, loading, hasSearched, mounted, token,
                   storedUser, location, net, corpus, index, apiResult,
                   authUser, navigating, page, loginPage, planner, shopping>>

\* onClose: RecipeDetail is unmounted; a run of handleAddToMealPlan goes on,
\* its state updates without effect
CloseDetail ==
    /\ detail.recipe # 0
    /\ detail' = [FreshDetail EXCEPT !.pc = detail.pc,
                                     !.run = [detail.run EXCEPT !.attached = FALSE]]
    /\ last' = LastAfterEdit
    /\ UNCHANGED <<query, recipes, error, loading, hasSearched, mounted, token,
                   storedUser, location, net, corpus, index, apiResult,
                   authUser, navigating, page, loginPage, planner, shopping>>

\* the meal selector is opened or cancelled, a day or a meal is selected (a
\* selection made during a run does not reach the run, which holds the
\* selection of the render it started from, and is left out)
EditSelection ==
    /\ detail.recipe # 0 /\ authUser # NULL
    /\ \/ detail' = [detail EXCEPT !.showMealSelector = ~detail.showMealSelector]
       \/ /\ detail.showMealSelector /\ detail.pc = "idle"
          /\ \E d \in 1..Len(days) :
                detail' = [detail EXCEPT !.selectedDay = days[d]]
       \/ /\ detail.showMealSelector /\ detail.pc = "idle"
          /\ \E m \in 1..Len(mealTypes) :
                detail' = [detail EXCEPT !.selectedMeal = mealTypes[m]]
    /\ last' = LastAfterEdit
    /\ UNCHANGED <<query, recipes, error, loading, hasSearched, mounted, token,
                   storedUser, location, net, corpus, index, apiResult,
                   authUser, navigating, page, loginPage, planner, shopping>>

detailUnchanged ==
    UNCHANGED <<query, recipes, error, loading, hasSearched, mounted, corpus,
                index, apiResult, authUser, page, loginPage, planner,
                shopping>>

\* handleAddToMealPlan up to its first await
HandleAddToMealPlan ==
    LET run == [recipe |-> detail.recipe, day |-> detail.selectedDay,
                meal |-> detail.selectedMeal,
                callback |-> detail.onAddToMealPlan, attached |-> TRUE]
    IN  IF authUser = NULL
        THEN /\ last' = [Started(run) EXCEPT !.ended = TRUE]
             /\ UNCHANGED <<detail, net>>
        ELSE /\ detail' = [detail EXCEPT !.adding = TRUE, !.pc = "getPlan",
                                         !.run = run]
             /\ net' = Append(net, WithAuth(GetCurrentWeekPlanRequest("RecipeDetail"),
                                            token))
             /\ last' = Started(run)

\* the user presses 'Add to Plan': the button is rendered for a logged-in
\* user with the selector open and is disabled while adding; one run at a time
ClickAdd ==
    /\ detail.recipe # 0 /\ authUser # NULL /\ detail.showMealSelector
    /\ ~detail.adding /\ detail.pc = "idle"
    /\ HandleAddToMealPlan
    /\ UNCHANGED <<token, storedUser, location, navigating>>
    /\ detailUnchanged

\* the state of RecipeDetail when a run ends: finally setAdding(false), and
\* setShowMealSelector(false) after a success, if the component the run
\* belongs to is still mounted
DetailAfterRun(success) ==
    [detail EXCEPT !.adding = IF detail.run.attached THEN FALSE ELSE @,
                   !.showMealSelector =
                       IF detail.run.attached /\ success THEN FALSE ELSE @,
                   !.pc = "idle", !.run = NoRun]

\* getCurrentWeekPlan is answered: the response interceptor, then
\* handleAddToMealPlan up to its second await, or its catch and finally
RespondPlan ==
    \E i \in 1..Len(net) : \E o \in PlanOutcomes :
        /\ net[i].fn = "getCurrentWeekPlan" /\ net[i].owner = "RecipeDetail"
        /\ detail.pc = "getPlan"
        /\ token' = TokenAfter(o)
        /\ storedUser' = IF Unauthorized(o) THEN NULL ELSE storedUser
        /\ location' = LocationAfter(o)
        /\ navigating' = NavigatingAfter(o)
        /\ IF ContinuesAfterPlan(o)
           THEN \E now \in Clock :
                  /\ net' = Without(net, i) \o
                        <<WithAuth(AddMealRequest(PlanIdOf(o.data),
                                       detail.run.recipe, detail.run.day,
                                       detail.run.meal,
                                       MealDate(now, detail.run.day),
                                       "RecipeDetail"), TokenAfter(o))>>
                  /\ detail' = [detail EXCEPT !.pc = "addMeal"]
                  /\ last' = [last EXCEPT !.planOutcome = o, !.planSettled = TRUE,
                                          !.today = now, !.addMeals = @ + 1]
           ELSE /\ net' = Without(net, i)
                /\ detail' = DetailAfterRun(FALSE)
                /\ last' = [last EXCEPT !.planOutcome = o, !.planSettled = TRUE,
                                        !.ended = TRUE]
        /\ detailUnchanged

\* addMeal is answered: the response interceptor, then the rest of
\* handleAddToMealPlan
RespondAddMeal ==
    \E i \in 1..Len(net) : \E o \in AddMealOutcomes :
        /\ net[i].fn = "addMeal" /\ net[i].owner = "RecipeDetail"
        /\ detail.pc = "addMeal"
        /\ token' = TokenAfter(o)
        /\ storedUser' = IF Unauthorized(o) THEN NULL ELSE storedUser
        /\ location' = LocationAfter(o)
        /\ navigating' = NavigatingAfter(o)
        /\ net' = Without(net, i)
        /\ detail' = DetailAfterRun(Resolves(o))
        /\ last' = [last EXCEPT !.addMealOutcome = o, !.ended = TRUE,
                                !.today = Started(NoRun).today,
                                !.onAdded = IF Resolves(o) /\ detail.run.callback
                                            THEN @ + 1 ELSE @]
        /\ detailUnchanged

\* the document is replaced by the one loaded from /login: every component
\* is gone, the requests are aborted, App starts again from localStorage
ReloadApp ==
    /\ navigating
    /\ navigating' = FALSE
    /\ mounted' = FALSE
    /\ FreshHome
    /\ net' = <<>>
    /\ authUser' = storedUser
    /\ page' = "login"
    /\ loginPage' = FreshLogin
    /\ detail' = FreshDetail
    /\ planner' = FreshPlanner
    /\ shopping' = FreshShopping
    /\ last' = NoEvent
    /\ UNCHANGED <<token, storedUser, location, corpus, index, apiResult>>

InitDetail ==
    /\ InitHome
    /\ InitSession
    /\ InitApp
    /\ corpus = Catalog
    /\ index = BuildIndex(corpus)

NextDetail ==
    \/ SelectRecipe
    \/ CloseDetail
    \/ EditSelection
    \/ ClickAdd
    \/ RespondPlan
    \/ RespondAddMeal
    \/ ReloadApp

SpecDetail == InitDetail /\ [][NextDetail]_vars

(***************************************************************************)
(* MealPlannerPage.                                                        *)
(***************************************************************************)
\* longest list of meals in a plan the server returns
MaxMeals == 2

\* the meals a plan may hold: any day and meal type among these, the item
\* identifiers in the order of the list
MealSlots == {<<"Monday", "dinner">>, <<"Sunday", "lunch">>}

RECURSIVE SeqsUpTo(_, _)
SeqsUpTo(S, n) ==
    IF n = 0 THEN {<<>>}
    ELSE LET shorter == SeqsUpTo(S, n - 1)
         IN  shorter \cup {Append(t, x) : t \in shorter, x \in S}

MealLists ==
    {[k \in 1..Len(ss) |->
         [item_id |-> k, day_of_week |-> ss[k][1], meal_type |-> ss[k][2]]] :
     ss \in SeqsUpTo(MealSlots, MaxMeals)}

\* mealPlanService.createMealPlan
CreateMealPlanRequest(week, owner) ==
    ApiRequest("createMealPlan", owner,
               [week_start_date |-> week.start, week_end_date |-> week.end])

\* the answers to POST /meal-plans/create: a plan with its meals, a plan
\* without the meals field, and the failures
CreateOutcomes ==
    {Response(200, [plan_id |-> 1, meals |-> ms]) : ms \in MealLists}
    \cup {Response(200, [plan_id |-> 1])}
    \cup Faults

\* MealPlannerPage.getMealForSlot: the position in mealPlan.meals of the
\* first meal with this day and meal type; <<>> for null or undefined
GetMealForSlot(mealPlan, day, mealType) ==
    IF "meals" \notin DOMAIN mealPlan THEN <<>>
    ELSE LET hits == {k \in 1..Len(mealPlan.meals) :
                         /\ mealPlan.meals[k].day_of_week = day
                         /\ mealPlan.meals[k].meal_type = mealType}
         IN  IF hits = {} THEN <<>>
             ELSE <<CHOOSE k \in hits : \A j \in hits : k <= j>>

\* the cells of the calendar grid: mealTypes.map over days.map
CalendarSlots ==
    {<<days[d], mealTypes[m]>> : d \in 1..Len(days), m \in 1..Len(mealTypes)}

\* the calendar is rendered once the page is not loading
ShowsCalendar == page = "meal-planner" /\ ~planner.loading

\* the cell shows the meal card of the meal at position k
SlotShowsMeal(slot, k) == GetMealForSlot(planner.mealPlan, slot[1], slot[2]) = <<k>>

\* the cell shows the add button
SlotShowsAdd(slot) == GetMealForSlot(planner.mealPlan, slot[1], slot[2]) = <<>>

(***************************************************************************)
(* App: the routes.                                                        *)
(***************************************************************************)
\* most requests in flight at a time
MaxInFlight == 2

Paths == {"/", "/login", "/meal-planner", "/shopping"}
ProtectedPaths == {"/meal-planner", "/shopping"}

\* authService.isAuthenticated: !!localStorage.getItem('token')
IsAuthenticated == token # NULL

\* mutant of RouteTarget: the route renders its page whatever the session
RouteTargetOpen(path) == path

\* ProtectedRoute: what the route of this path renders, the page itself or
\* the redirection to /login
RouteTarget(path) ==
    IF path \in ProtectedPaths /\ ~IsAuthenticated THEN "/login" ELSE path

\* the page a path mounts besides HomePage
PageOf(path) ==
    IF path = "/" THEN "none"
    ELSE IF path = "/login" THEN "login"
    ELSE IF path = "/meal-planner" THEN "meal-planner"
    ELSE "shopping"

\* the requests in flight once every mounted component is unmounted
Detached(reqs) == [k \in 1..Len(reqs) |-> [reqs[k] EXCEPT !.live = FALSE]]

\* the instants at which a page is opened: noon of each day
Noons == {now \in Clock : now.hour = 12}

\* the requests the mount effect of a page sends: loadMealPlan of
\* MealPlannerPage, loadData of ShoppingPage
MountRequests(path) ==
    IF path = "/meal-planner"
    THEN {<<WithAuth(CreateMealPlanRequest(GetWeekDates(now, 0), "MealPlannerPage"),
                     token)>> : now \in Noons}
    ELSE IF path = "/shopping"
    THEN {<<WithAuth(GetCurrentWeekPlanRequest("ShoppingPage"), token)>>}
    ELSE {<<>>}

\* the router renders the route of target: the page mounted before is
\* unmounted, the new one is mounted and runs its mount effect; reqs are the
\* requests in flight
Mount(target, reqs) ==
    /\ location' = target
    /\ mounted' = (target = "/")
    /\ FreshHome
    /\ page' = PageOf(target)
    /\ loginPage' = FreshLogin
    /\ detail' = FreshDetail
    /\ planner' = FreshPlanner
    /\ shopping' = FreshShopping
    /\ \E sent \in MountRequests(target) :
          /\ Len(reqs) + Len(sent) <= MaxInFlight
          /\ net' = Detached(reqs) \o sent

\* navigate(target) of react-router: nothing is mounted anew when the
\* location is target already
NavigateTo(target, reqs) ==
    IF location = target
    THEN /\ net' = reqs
         /\ UNCHANGED <<location, mounted, query, recipes, error, loading,
                        hasSearched, page, loginPage, detail, planner,
                        shopping>>
    ELSE Mount(target, reqs)

\* the user follows a link or enters a path
Navigate ==
    \E path \in Paths :
        /\ ~navigating
        /\ RouteTarget(path) # location
        /\ Mount(RouteTarget(path), net)
        /\ last' = [op |-> "navigate", path |-> path, isAuth |-> IsAuthenticated]
        /\ UNCHANGED <<token, storedUser, authUser, navigating, corpus, index,
                       apiResult>>

\* createMealPlan is answered: the response interceptor, then the rest of
\* loadMealPlan
RespondCreate ==
    \E i \in 1..Len(net) : \E o \in CreateOutcomes :
        /\ net[i].fn = "createMealPlan"
        /\ token' = TokenAfter(o)
        /\ storedUser' = IF Unauthorized(o) THEN NULL ELSE storedUser
        /\ location' = LocationAfter(o)
        /\ navigating' = NavigatingAfter(o)
        /\ net' = Without(net, i)
        /\ planner' =
              IF ~net[i].live THEN planner
              ELSE IF Resolves(o)
                   THEN [planner EXCEPT !.mealPlan = o.data, !.loading = FALSE]
                   ELSE [planner EXCEPT !.error = MsgPlanFailed,
                                        !.loading = FALSE]
        /\ last' = [op |-> "createMealPlan"]
        /\ UNCHANGED <<query, recipes, error, loading, hasSearched, mounted,
                       corpus, index, apiResult, authUser, page, loginPage,
                       detail, shopping>>

\* Navbar.handleLogout: App.logout (authService.logout, setUser(null)), then
\* navigate('/'); the button is rendered for a logged-in user
Logout ==
    /\ authUser # NULL /\ ~navigating
    /\ token' = NULL
    /\ storedUser' = NULL
    /\ authUser' = NULL
    /\ NavigateTo("/", net)
    /\ last' = [op |-> "logout"]
    /\ UNCHANGED <<navigating, corpus, index, apiResult>>

(***************************************************************************)
(* RecipeDetail under a session that may end.                              *)
(***************************************************************************)
\* mutant of ShowsMealSelector: the selector is rendered for anyone
ShowsMealSelectorAnyone == detail.recipe # 0 /\ detail.showMealSelector

\* RecipeDetail: user && showMealSelector, the block of the day and meal
\* selects and of the 'Add to Plan' button
ShowsMealSelector ==
    detail.recipe # 0 /\ authUser # NULL /\ detail.showMealSelector

\* handleAddToMealPlan called without a user.  No element on display calls
\* it then (its button is inside the selector): it is called as a function.
CallAddToMealPlan ==
    /\ detail.recipe # 0 /\ detail.pc = "idle" /\ ~ShowsMealSelector
    /\ authUser = NULL
    /\ HandleAddToMealPlan
    /\ UNCHANGED <<token, storedUser, location, navigating>>
    /\ detailUnchanged

NextAddMeal ==
    \/ NextDetail
    \/ Logout
    \/ CallAddToMealPlan

SpecAddMeal == InitDetail /\ [][NextAddMeal]_vars

(***************************************************************************)
(* LoginPage.                                                              *)
(***************************************************************************)
MsgInvalid == "Invalid email or password"

\* authService.login: the request it posts
LoginRequest(credentials, owner) == ApiRequest("login", owner, credentials)

\* the answers to POST /auth/login: a session, a body without token, and the
\* failures
LoginOutcomes ==
    {Response(200, [token |-> "jwt2", user_id |-> 2, username |-> "user2"]),
     Response(200, Detail("ok"))}
    \cup Faults

\* err.response?.data?.detail || 'Invalid email or password'
ErrorDetail(o) ==
    IF o.response /\ "detail" \in DOMAIN o.data THEN o.data.detail
    ELSE MsgInvalid

\* authService.login: the token it stores, if response.data.token
StoredToken(data) == IF "token" \in DOMAIN data THEN data.token ELSE token

\* authService.login: the user it stores with the token
StoredUser(data) ==
    IF "token" \in DOMAIN data THEN data.username ELSE storedUser

\* LoginPage.handleSubmit: the user login() is given (an object in any case,
\* its fields undefined for a body without them)
LoginUser(data) ==
    IF "username" \in DOMAIN data THEN data.username ELSE "undefined"

\* LoginPage.handleSubmit up to its await; the submit button is disabled
\* while loading
SubmitLogin ==
    /\ page = "login" /\ ~loginPage.loading /\ ~navigating
    /\ Len(net) < MaxInFlight
    /\ \E password \in {"right", "wrong"} :
          net' = Append(net, WithAuth(LoginRequest([email |-> "user2",
                                                    password |-> password],
                                                   "LoginPage"), token))
    /\ loginPage' = [error |-> "", loading |-> TRUE]
    /\ last' = [op |-> "handleSubmit"]
    /\ UNCHANGED <<query, recipes, error, loading, hasSearched, mounted, token,
                   storedUser, location, corpus, index, apiResult, authUser,
                   navigating, page, detail, planner, shopping>>

\* the login is answered: the response interceptor, the rest of
\* authService.login, then the rest of handleSubmit
RespondLogin ==
    \E i \in 1..Len(net) : \E o \in LoginOutcomes :
        /\ net[i].fn = "login"
        /\ last' = [op |-> "login", outcome |-> o, live |-> net[i].live]
        /\ IF Resolves(o)
           THEN /\ token' = StoredToken(o.data)
                /\ storedUser' = StoredUser(o.data)
                /\ authUser' = LoginUser(o.data)
                /\ NavigateTo("/", Without(net, i))
                /\ UNCHANGED navigating
           ELSE /\ token' = TokenAfter(o)
                /\ storedUser' = IF Unauthorized(o) THEN NULL ELSE storedUser
                /\ location' = LocationAfter(o)
                /\ navigating' = NavigatingAfter(o)
                /\ net' = Without(net, i)
                /\ loginPage' = IF net[i].live
                                THEN [error |-> ErrorDetail(o), loading |-> FALSE]
                                ELSE loginPage
                /\ UNCHANGED <<query, recipes, error, loading, hasSearched,
                               mounted, authUser, page, detail, planner,
                               shopping>>
        /\ UNCHANGED <<corpus, index, apiResult>>

(***************************************************************************)
(* ShoppingPage.                                                           *)
(***************************************************************************)
\* longest list of items in a shopping list the server returns
MaxItems == 2

MsgLoadFailed == "Failed to load data. Please try again."

\* the items of a shopping list: the identifiers in the order of the list,
\* each checked or not
ItemLists ==
    UNION {[1..n -> BOOLEAN] : n \in 0..MaxItems}

ItemsOf(checks) ==
    [k \in 1..Len(checks) |-> [item_id |-> k, is_checked |-> checks[k]]]

ShoppingList(listId, planId, checks) ==
    [list_id |-> listId, plan_id |-> planId, items |-> ItemsOf(checks),
     total_items |-> Len(checks)]

\* shoppingService.listShoppingLists
ListShoppingListsRequest(owner) ==
    ApiRequest("listShoppingLists", owner, [none |-> TRUE])

\* shoppingService.toggleItem
ToggleItemRequest(listId, itemId, isChecked, owner) ==
    ApiRequest("toggleItem", owner,
               [list_id |-> listId, item_id |-> itemId, is_checked |-> isChecked])

\* the answers to GET /shopping-lists/: an array of lists (the field lists
\* holds the array), a body that is no array, and the failures
ListOutcomes ==
    {Response(200, [lists |-> <<>>])}
    \cup {Response(200, [lists |-> <<ShoppingList(1, p, checks)>>]) :
              p \in PlanIds, checks \in ItemLists}
    \cup {Response(200, Detail("ok"))}
    \cup Faults

\* the answers to PATCH /shopping-lists/{id}/items/{id}
ToggleOutcomes ==
    {Response(200, Detail("updated")), Response(404, Detail("no item"))}
    \cup Faults

\* loadData: lists.find(l => l.plan_id === plan.plan_id); thrown when lists
\* has no find, or when the callback reads plan_id of a null plan
FindList(data, plan) ==
    IF "lists" \notin DOMAIN data THEN [thrown |-> TRUE, found |-> <<>>]
    ELSE IF data.lists # <<>> /\ plan = NullBody
    THEN [thrown |-> TRUE, found |-> <<>>]
    ELSE LET hits == {k \in 1..Len(data.lists) :
                         data.lists[k].plan_id = PlanIdOf(plan)}
         IN  [thrown |-> FALSE,
              found |-> IF hits = {} THEN <<>>
                        ELSE <<data.lists[CHOOSE k \in hits :
                                              \A j \in hits : k <= j]>>]

\* mutant of ToggleItem: every item takes the new status
ToggleAll(list, itemId, currentStatus) ==
    [list EXCEPT !.items =
        [k \in 1..Len(list.items) |->
            [list.items[k] EXCEPT !.is_checked = ~currentStatus]]]

\* handleToggleItem: the update of the list after the server call
ToggleItem(list, itemId, currentStatus) ==
    [list EXCEPT !.items =
        [k \in 1..Len(list.items) |->
            IF list.items[k].item_id = itemId
            THEN [list.items[k] EXCEPT !.is_checked = ~currentStatus]
            ELSE list.items[k]]]

shoppingUnchanged ==
    UNCHANGED <<query, recipes, error, loading, hasSearched, mounted, corpus,
                index, apiResult, authUser, page, loginPage, detail, planner>>

\* getCurrentWeekPlan of loadData is answered: the response interceptor,
\* then loadData up to its second await, or its catch and finally
RespondShoppingPlan ==
    \E i \in 1..Len(net) : \E o \in PlanOutcomes :
        /\ net[i].fn = "getCurrentWeekPlan" /\ net[i].owner = "ShoppingPage"
        /\ token' = TokenAfter(o)
        /\ storedUser' = IF Unauthorized(o) THEN NULL ELSE storedUser
        /\ location' = LocationAfter(o)
        /\ navigating' = NavigatingAfter(o)
        /\ IF Resolves(o)
           THEN /\ net' = Without(net, i) \o
                      <<[WithAuth(ListShoppingListsRequest("ShoppingPage"),
                                  TokenAfter(o)) EXCEPT !.live = net[i].live]>>
                /\ shopping' = IF net[i].live
                               THEN [shopping EXCEPT !.mealPlan = o.data]
                               ELSE shopping
           ELSE /\ net' = Without(net, i)
                /\ shopping' = IF net[i].live
                               THEN [shopping EXCEPT !.error = MsgLoadFailed,
                                                     !.loading = FALSE]
                               ELSE shopping
        /\ last' = [op |-> "getCurrentWeekPlan"]
        /\ shoppingUnchanged

\* listShoppingLists is answered: the response interceptor, then the rest of
\* loadData
RespondLists ==
    \E i \in 1..Len(net) : \E o \in ListOutcomes :
        /\ net[i].fn = "listShoppingLists"
        /\ token' = TokenAfter(o)
        /\ storedUser' = IF Unauthorized(o) THEN NULL ELSE storedUser
        /\ location' = LocationAfter(o)
        /\ navigating' = NavigatingAfter(o)
        /\ net' = Without(net, i)
        /\ shopping' =
              IF ~net[i].live THEN shopping
              ELSE IF Resolves(o) /\ ~FindList(o.data, shopping.mealPlan).thrown
              THEN LET currentList == FindList(o.data, shopping.mealPlan).found
                   IN  [shopping EXCEPT
                           !.shoppingList = IF currentList = <<>> THEN @
                                            ELSE currentList[1],
                           !.loading = FALSE]
              ELSE [shopping EXCEPT !.error = MsgLoadFailed, !.loading = FALSE]
        /\ last' = [op |-> "listShoppingLists"]
        /\ shoppingUnchanged

\* no button of the page was clicked yet
NoBatch == [button |-> "none", target |-> FALSE, failed |-> FALSE]

\* the record of the button clicked last ('Mark All as Bought' or 'Clear
\* Checks'): the status it gives the items, and whether one of its requests
\* has failed
BatchOf(event) == IF "batch" \in DOMAIN event THEN event.batch ELSE NoBatch

\* that record once the request req is answered with o
BatchAfter(req, o) ==
    IF req.owner = BatchOf(last).button /\ ~Resolves(o)
    THEN [BatchOf(last) EXCEPT !.failed = TRUE]
    ELSE BatchOf(last)

\* handleToggleItem up to its await: nothing without a list
HandleToggleItem(itemId, currentStatus) ==
    /\ last' = [op |-> "handleToggleItem", itemId |-> itemId,
                currentStatus |-> currentStatus,
                sent |-> shopping.shoppingList # NullBody,
                batch |-> BatchOf(last)]
    /\ IF shopping.shoppingList = NullBody
       THEN UNCHANGED net
       ELSE /\ Len(net) < MaxInFlight
            /\ net' = Append(net,
                         WithAuth(ToggleItemRequest(shopping.shoppingList.list_id,
                                                    itemId, ~currentStatus,
                                                    "ShoppingPage"), token))

\* the user clicks the checkbox of an item (or 'Mark All as Bought', 'Clear
\* Checks', which call the handler for the items concerned): the handler is
\* given the item's identifier and the status on display.  Without a list
\* no item is on display; the handler is then called as a function, with
\* any arguments.
ClickToggle ==
    /\ page = "shopping" /\ ~shopping.loading /\ ~navigating
    /\ IF shopping.shoppingList = NullBody
       THEN \E itemId \in 1..MaxItems, currentStatus \in BOOLEAN :
               HandleToggleItem(itemId, currentStatus)
       ELSE \E k \in 1..Len(shopping.shoppingList.items) :
               HandleToggleItem(shopping.shoppingList.items[k].item_id,
                                shopping.shoppingList.items[k].is_checked)
    /\ UNCHANGED <<token, storedUser, location, navigating, shopping>>
    /\ shoppingUnchanged

\* toggleItem is answered: the response interceptor, then the rest of
\* handleToggleItem (item and status are those the handler was given)
RespondToggle ==
    \E i \in 1..Len(net) : \E o \in ToggleOutcomes :
        /\ net[i].fn = "toggleItem"
        /\ token' = TokenAfter(o)
        /\ storedUser' = IF Unauthorized(o) THEN NULL ELSE storedUser
        /\ location' = LocationAfter(o)
        /\ navigating' = NavigatingAfter(o)
        /\ net' = Without(net, i)
        /\ shopping' =
              IF Resolves(o) /\ net[i].live /\ shopping.shoppingList # NullBody
              THEN [shopping EXCEPT !.shoppingList =
                       ToggleItem(@, net[i].body.item_id,
                                  ~net[i].body.is_checked)]
              ELSE shopping
        /\ last' = [op |-> "toggleItem", itemId |-> net[i].body.item_id,
                    currentStatus |-> ~net[i].body.is_checked,
                    ok |-> Resolves(o), live |-> net[i].live,
                    batch |-> BatchAfter(net[i], o)]
        /\ shoppingUnchanged

InitRoutes ==
    /\ InitHome
    /\ InitSession
    /\ InitApp
    /\ corpus = Catalog
    /\ index = BuildIndex(corpus)

NextRoutes ==
    \/ Navigate
    \/ RespondCreate
    \/ Logout
    \/ SubmitLogin
    \/ RespondLogin
    \/ RespondShoppingPlan
    \/ RespondLists
    \/ ReloadApp

SpecRoutes == InitRoutes /\ [][NextRoutes]_vars

\* ShoppingPage from its mount: a logged-in user has opened /shopping, the
\* mount effect has sent the first request of loadData
InitShopping ==
    /\ query = <<>> /\ recipes = <<>> /\ error = NULL /\ loading = FALSE
    /\ hasSearched = FALSE /\ mounted = FALSE
    /\ token = "jwt" /\ storedUser = "user" /\ authUser = "user"
    /\ location = "/shopping" /\ navigating = FALSE
    /\ page = "shopping"
    /\ net = <<WithAuth(GetCurrentWeekPlanRequest("ShoppingPage"), "jwt")>>
    /\ last = [op |-> "navigate", path |-> "/shopping", isAuth |-> TRUE]
    /\ apiResult = Idle
    /\ loginPage = FreshLogin
    /\ detail = FreshDetail
    /\ planner = FreshPlanner
    /\ shopping = FreshShopping
    /\ corpus = Catalog
    /\ index = BuildIndex(corpus)

NextShopping ==
    \/ RespondShoppingPlan
    \/ RespondLists
    \/ ClickToggle
    \/ RespondToggle
    \/ Logout
    \/ ReloadApp

SpecShopping == InitShopping /\ [][NextShopping]_vars

\* the calls of handleToggleItem that a button makes, in the order of the
\* list: items.forEach(item => { if (item.is_checked is not the target)
\* handleToggleItem(item.item_id, item.is_checked) })
BatchCalls(list, target) ==
    SelectSeq(list.items, LAMBDA item : item.is_checked # target)

\* the requests of those calls: each call runs up to its await
BatchRequests(list, target, button) ==
    [k \in 1..Len(BatchCalls(list, target)) |->
        WithAuth(ToggleItemRequest(list.list_id,
                                   BatchCalls(list, target)[k].item_id,
                                   ~BatchCalls(list, target)[k].is_checked,
                                   button), token)]

\* a click on one of the two buttons, which are rendered for a list with
\* items
ClickBatch(button, target) ==
    /\ page = "shopping" /\ ~shopping.loading /\ ~navigating
    /\ shopping.shoppingList # NullBody
    /\ Len(shopping.shoppingList.items) > 0
    /\ Len(net) + Len(BatchCalls(shopping.shoppingList, target)) <= MaxInFlight
    /\ net' = net \o BatchRequests(shopping.shoppingList, target, button)
    /\ last' = [op |-> button,
                batch |-> [button |-> button, target |-> target,
                           failed |-> FALSE]]
    /\ UNCHANGED <<token, storedUser, location, navigating, shopping>>
    /\ shoppingUnchanged

\* 'Mark All as Bought'
ClickMarkAll == ClickBatch("MarkAll", TRUE)

\* 'Clear Checks'
ClickClearChecks == ClickBatch("ClearChecks", FALSE)

NextMarkAll ==
    \/ NextShopping
    \/ ClickMarkAll
    \/ ClickClearChecks

SpecMarkAll == InitShopping /\ [][NextMarkAll]_vars

(***************************************************************************)
(* Properties.                                                             *)
(***************************************************************************)
\* the text is empty or white space only
IsBlank(q) == \A i \in 1..Len(q) : q[i] \in WhiteSpace

\* t is q without its leading and trailing white space
IsTrimOf(t, q) ==
    /\ t # <<>> => Head(t) \notin WhiteSpace /\ t[Len(t)] \notin WhiteSpace
    /\ \E a \in 0..Len(q) :
          /\ a + Len(t) <= Len(q)
          /\ SubSeq(q, a + 1, a + Len(t)) = t
          /\ \A i \in 1..a : q[i] \in WhiteSpace
          /\ \A i \in (a + Len(t) + 1)..Len(q) : q[i] \in WhiteSpace

\* C1: a submit whose text is empty or white space only makes no call of
\* onSearch and leaves no request in flight; a submit of any other text calls
\* onSearch exactly once, with the text stripped of its leading and trailing
\* white space, and posts exactly one recommend request carrying that text.
C1_SubmitGuard ==
    last.op = "handleSubmit" =>
        IF IsBlank(last.text)
        THEN last.onSearch = <<>> /\ net = <<>> /\ ~loading
        ELSE /\ Len(last.onSearch) = 1
             /\ IsTrimOf(last.onSearch[1], last.text)
             /\ Len(net) = 1
             /\ net[1].fn = "recommend"
             /\ net[1].query = last.onSearch[1]

\* a submit of white space only has just been handled
C1_Witness ==
    /\ last.op = "handleSubmit"
    /\ last.text # <<>> /\ IsBlank(last.text)
    /\ last.onSearch = <<>>

\* a recipe satisfies every structured filter that was supplied
Satisfies(r, f) ==
    /\ f.dietary_restrictions # NULL => f.dietary_restrictions \in r.dietary_tags
    /\ f.max_cooking_time # None => r.cooking_time <= f.max_cooking_time[1]
    /\ f.difficulty # NULL => LowerStr(f.difficulty) = LowerStr(r.difficulty)
    /\ f.cuisine # NULL => \E t \in r.cuisine_tags : IsSubstring(f.cuisine, t)

\* a call of getRecommendations has settled with an answer of the ranker
RecommendAnswered ==
    /\ apiResult # Idle
    /\ apiResult.req.fn = "recommend"
    /\ apiResult.served /\ apiResult.built
    /\ ~IsBlank(apiResult.req.query)

\* the list a settled call returned
ReturnedList ==
    IF apiResult.req.fn = "recommend"
    THEN apiResult.outcome.data.recommendations
    ELSE apiResult.outcome.data

Min(a, b) == IF a < b THEN a ELSE b

\* C2: for a non-empty query, recommend returns at most n_recommendations
\* results, in order of non-increasing similarity_score, and exactly as many
\* as pass the filters when fewer than n_recommendations do.
C2_TopNSorted ==
    RecommendAnswered =>
        LET recs    == ReturnedList
            passing == {i \in 1..Len(apiResult.corpus) :
                           Satisfies(apiResult.corpus[i], apiResult.req.filters)}
        IN  /\ apiResult.returned
            /\ Len(recs) <= apiResult.req.n
            /\ \A k \in 1..(Len(recs) - 1) :
                  recs[k].similarity_score >= recs[k + 1].similarity_score
            /\ Len(recs) = Min(apiResult.req.n, Cardinality(passing))

\* more recipes pass than were asked for: the two best are returned, the
\* better one first
C2_Witness ==
    /\ RecommendAnswered
    /\ apiResult.req.n = 2
    /\ Len(ReturnedList) = 2
    /\ ReturnedList[1].similarity_score > ReturnedList[2].similarity_score
    /\ ReturnedList[2].similarity_score > 0

\* C3: every recipe recommend returns satisfies all the supplied filters at
\* once, and a recipe whose cooking time equals max_cooking_time is not
\* excluded: when the count does not cut the list, the recipes returned are
\* exactly those satisfying every supplied filter.
C3_FiltersConjunctive ==
    RecommendAnswered =>
        LET recs == ReturnedList
            f    == apiResult.req.filters
            c    == apiResult.corpus
        IN  /\ \A k \in 1..Len(recs) : Satisfies(recs[k], f)
            /\ apiResult.req.n >= Len(c) =>
                  {recs[k].id : k \in 1..Len(recs)}
                      = {c[i].id : i \in {j \in 1..Len(c) : Satisfies(c[j], f)}}

\* two filters were supplied, one of them a time bound, and a recipe whose
\* cooking time equals the bound is returned while others are excluded
C3_Witness ==
    /\ RecommendAnswered
    /\ apiResult.req.filters.max_cooking_time # None
    /\ apiResult.req.filters.cuisine # NULL
    /\ \E k \in 1..Len(ReturnedList) :
          ReturnedList[k].cooking_time = apiResult.req.filters.max_cooking_time[1]
    /\ Len(ReturnedList) < Len(apiResult.corpus)

\* C4: after a failed recommend request HomePage shows the 'Recipe data is
\* not available' message exactly when the response status is 503 and the
\* generic message otherwise; it shows an error and never the 'No recipes
\* found' empty state.
C4_FailureMessage ==
    (last.op = "response" /\ ~Resolves(last.outcome)) =>
        /\ (error = MsgUnavailable)
               <=> (last.outcome.response /\ last.outcome.status = 503)
        /\ error \in {MsgUnavailable, MsgGeneric}
        /\ recipes = <<>>
        /\ ShowsError
        /\ ~ShowsEmptyState

\* a 503 has just been handled
C4_Witness ==
    /\ last.op = "response"
    /\ last.outcome.response /\ last.outcome.status = 503
    /\ error = MsgUnavailable
    /\ hasSearched /\ ~loading

\* C5: after a successful response whose recommendations list is empty,
\* error is null and recipes is empty: HomePage shows the 'No recipes found'
\* empty state and no error message.
C5_EmptySuccess ==
    (/\ last.op = "response"
     /\ Resolves(last.outcome)
     /\ RecommendationsOrEmpty(last.outcome.data) = <<>>) =>
        /\ error = NULL
        /\ recipes = <<>>
        /\ ShowsEmptyState
        /\ ~ShowsError

\* a success with an empty list has just been handled
C5_Witness ==
    /\ last.op = "response"
    /\ Resolves(last.outcome)
    /\ "recommendations" \in DOMAIN last.outcome.data
    /\ last.outcome.data.recommendations = <<>>
    /\ ShowsEmptyState

\* C6: a recommend request that reaches the service while its index is not
\* built is answered with 503 and never with a result list, and HomePage
\* does not retry: once a response has been handled no request is in flight,
\* and a request is in flight only while the search of a submit is loading.
C6_UnbuiltNoRetry ==
    /\ (last.op = "response" /\ last.served /\ ~last.built) =>
           /\ last.outcome.status = 503
           /\ ~Resolves(last.outcome)
           /\ recipes = <<>>
    /\ last.op = "response" => net = <<>> /\ ~loading
    /\ net # <<>> => loading

\* the 503 of a service without index has just been handled, and nothing is
\* in flight
C6_Witness ==
    /\ last.op = "response"
    /\ last.served /\ ~last.built
    /\ last.outcome.status = 503
    /\ error = MsgUnavailable
    /\ net = <<>>

\* a call of getRecommendations or quickSearch has settled with an answer of
\* the ranker
SearchAnswered ==
    /\ apiResult # Idle
    /\ apiResult.req.fn \in {"recommend", "quick"}
    /\ apiResult.served /\ apiResult.built
    /\ ~IsBlank(apiResult.req.query)

\* no term of the text is in the vocabulary of the corpus
OutOfVocabulary(text, c) ==
    \A i \in 1..Len(c) : Terms(Tokenize(text)) \cap Terms(Tokenize(c[i].name)) = {}

\* C8: a query all of whose terms are absent from the vocabulary is not an
\* error: the call returns, and every recipe returned has score 0.
C8_OutOfVocabulary ==
    (SearchAnswered /\ OutOfVocabulary(apiResult.req.query, apiResult.corpus)) =>
        /\ apiResult.returned
        /\ apiResult.outcome.status = 200
        /\ \A k \in 1..Len(ReturnedList) : ReturnedList[k].similarity_score = 0

\* a query of one unknown term was answered with recipes, all of score 0
C8_Witness ==
    /\ SearchAnswered
    /\ Tokenize(apiResult.req.query) # <<>>
    /\ OutOfVocabulary(apiResult.req.query, apiResult.corpus)
    /\ apiResult.returned
    /\ Len(ReturnedList) > 0
    /\ \A k \in 1..Len(ReturnedList) : ReturnedList[k].similarity_score = 0

\* C9: every similarity_score returned by recommend or quickSearch lies in
\* [0, 1] (0..ScoreScale in units of 1/ScoreScale), so the match percentage
\* RecipeCard displays for it lies in 0..100; a recipe without a score, as
\* getRecipeDetail returns it, is displayed as 0%.
C9_ScoreRange ==
    /\ (SearchAnswered /\ apiResult.returned) =>
           \A k \in 1..Len(ReturnedList) :
              /\ ReturnedList[k].similarity_score \in 0..ScoreScale
              /\ MatchPercent(ReturnedList[k]) \in 0..100
    /\ (/\ apiResult # Idle /\ apiResult.req.fn = "detail"
        /\ apiResult.served /\ apiResult.returned) =>
           MatchPercent(apiResult.outcome.data) = 0

\* a recipe without a score was returned and is displayed as 0%
C9_Witness ==
    /\ apiResult # Idle /\ apiResult.req.fn = "detail"
    /\ apiResult.served /\ apiResult.returned
    /\ "similarity_score" \notin DOMAIN apiResult.outcome.data
    /\ MatchPercent(apiResult.outcome.data) = 0

\* the identifiers of a corpus
Ids(c) == {c[i].id : i \in 1..Len(c)}

\* C10: a detail lookup of an identifier the corpus does not have is
\* rejected (with 404 when the index is built) and returns no record, not
\* even an empty one; a lookup of an identifier the corpus has returns the
\* recipe with that identifier.
C10_DetailLookup ==
    (apiResult # Idle /\ apiResult.req.fn = "detail" /\ apiResult.served) =>
        IF apiResult.req.id \in Ids(apiResult.corpus)
        THEN /\ apiResult.returned
             /\ \E i \in 1..Len(apiResult.corpus) :
                   /\ apiResult.corpus[i].id = apiResult.req.id
                   /\ apiResult.outcome.data = apiResult.corpus[i]
        ELSE /\ ~apiResult.returned
             /\ apiResult.built => apiResult.outcome.status = 404

\* a lookup of an unknown identifier in a loaded corpus was rejected with 404
C10_Witness ==
    /\ apiResult # Idle /\ apiResult.req.fn = "detail"
    /\ apiResult.served /\ apiResult.built
    /\ apiResult.req.id \notin Ids(apiResult.corpus)
    /\ apiResult.outcome.status = 404
    /\ ~apiResult.returned

\* the request of the call of recipeService in progress or just settled
CallRequest == IF net # <<>> THEN net[1] ELSE apiResult.req

\* a call of the service function fn is in progress or has just settled
CallMade(fn) == last.op = fn /\ (net # <<>> \/ apiResult # Idle)

\* C11: getRecommendations sends n_recommendations = 6 when the caller's
\* filters carry no n_recommendations, and sends a positive count the caller
\* supplies unchanged.
C11_DefaultCount ==
    CallMade("getRecommendations") =>
        /\ CallRequest.fn = "recommend"
        /\ last.n = None => CallRequest.n = 6
        /\ (last.n # None /\ last.n[1] > 0) => CallRequest.n = last.n[1]

\* a call without a count is in flight with n_recommendations = 6
C11_Witness ==
    /\ CallMade("getRecommendations")
    /\ last.n = None
    /\ net # <<>> /\ net[1].n = 6

\* C12: quickSearch carries the query text and a limit and never a
\* structured filter, and the limit it sends by default is smaller than the
\* n_recommendations that getRecommendations sends by default.
C12_QuickSearchSmaller ==
    CallMade("quickSearch") =>
        /\ CallRequest.fn = "quick"
        /\ CallRequest.query = last.query
        /\ CallRequest.filters = NoFilters
        /\ last.n = None =>
              CallRequest.n < GetRecommendationsRequest(last.query, None,
                                                        NoFilters, "caller").n

\* the addMeal requests in flight
AddMealsInFlight == {i \in 1..Len(net) : net[i].fn = "addMeal"}

\* C13: in a run of handleAddToMealPlan, addMeal is issued only after
\* getCurrentWeekPlan has resolved, at most once, and with the plan_id that
\* getCurrentWeekPlan returned; when getCurrentWeekPlan fails, addMeal is not
\* issued and onAddToMealPlan is not called.
C13_Sequential ==
    /\ \A i \in AddMealsInFlight :
          /\ last.op = "handleAddToMealPlan"
          /\ last.planSettled /\ Resolves(last.planOutcome)
          /\ "plan_id" \in DOMAIN last.planOutcome.data =>
                 net[i].body.plan_id = last.planOutcome.data.plan_id
          /\ net[i].body.recipe_id = last.run.recipe
    /\ Cardinality(AddMealsInFlight) <= 1
    /\ last.op = "handleAddToMealPlan" =>
          /\ last.addMeals <= 1
          /\ last.addMeals = 1 => last.planSettled /\ Resolves(last.planOutcome)
          /\ (last.planSettled /\ ~Resolves(last.planOutcome)) =>
                 /\ last.addMeals = 0
                 /\ last.onAdded = 0
                 /\ AddMealsInFlight = {}
          /\ last.onAdded <= 1
          /\ last.onAdded = 1 => Resolves(last.addMealOutcome)

\* addMeal is in flight with the plan_id of the plan that was returned
C13_Witness ==
    /\ last.op = "handleAddToMealPlan"
    /\ Resolves(last.planOutcome)
    /\ \E i \in AddMealsInFlight :
          net[i].body.plan_id = 2 /\ last.planOutcome.data.plan_id = 2

\* the Monday of the Monday-to-Sunday week that contains the date d
WeekStart(d) == d - (d % 7)

\* C19: the date handleAddToMealPlan sends to addMeal falls on the selected
\* weekday and lies in the Monday-to-Sunday week that contains the current
\* date, which is the range getWeekDates(0) computes.
C19_DateInWeek ==
    \A i \in AddMealsInFlight :
        last.op = "handleAddToMealPlan" =>
            LET date  == net[i].body.date
                today == last.today
            IN  /\ days[(date % 7) + 1] = net[i].body.day_of_week
                /\ date \in WeekStart(today.day)..(WeekStart(today.day) + 6)
                /\ date \in GetWeekDates(today, 0).start..GetWeekDates(today, 0).end

\* the meals of the loaded plan
PlanMeals ==
    IF "meals" \in DOMAIN planner.mealPlan THEN planner.mealPlan.meals ELSE <<>>

\* the calendar has 21 slots; a slot shows a meal only if the plan has it
\* with the slot's day and meal type, and shows the add button exactly when
\* the plan has no meal for its day and meal type
CalendarSlotsSound ==
    ShowsCalendar =>
        /\ Cardinality(CalendarSlots) = 21
        /\ \A slot \in CalendarSlots :
              /\ \A k \in 1..Len(PlanMeals) :
                    SlotShowsMeal(slot, k) =>
                        /\ PlanMeals[k].day_of_week = slot[1]
                        /\ PlanMeals[k].meal_type = slot[2]
              /\ SlotShowsAdd(slot) <=>
                    ~ \E k \in 1..Len(PlanMeals) :
                          /\ PlanMeals[k].day_of_week = slot[1]
                          /\ PlanMeals[k].meal_type = slot[2]
              /\ SlotShowsAdd(slot) \/ \E k \in 1..Len(PlanMeals) : SlotShowsMeal(slot, k)

\* C14: the weekly calendar has exactly 21 slots; a slot shows a meal only
\* if that meal is in the loaded plan with the slot's day and meal type, it
\* shows the add button if and only if the plan has no meal for that day and
\* meal type, and every meal of the plan appears in exactly one slot.
C14_CalendarSlots ==
    /\ CalendarSlotsSound
    /\ ShowsCalendar =>
          \A k \in 1..Len(PlanMeals) :
              Cardinality({slot \in CalendarSlots : SlotShowsMeal(slot, k)}) = 1

\* C16: when a call is answered with status 401 the client removes token and
\* user from localStorage, sets the location to /login and still rejects the
\* call; any other failure, and the absence of a response, leaves
\* localStorage and the location as they were (and rejects the call).
C16_UnauthorizedClears ==
    [][(apiResult = Idle /\ apiResult' # Idle) =>
          LET o == apiResult'.outcome
          IN  /\ Unauthorized(o) =>
                    /\ token' = NULL /\ storedUser' = NULL
                    /\ location' = "/login"
                    /\ ~apiResult'.returned
              /\ (~Resolves(o) /\ ~Unauthorized(o)) =>
                    /\ token' = token /\ storedUser' = storedUser
                    /\ location' = location
                    /\ ~apiResult'.returned]_vars

\* a call sent with the token of a session was answered 401: the session is
\* gone and the location is /login
C16_Witness ==
    /\ apiResult # Idle
    /\ Unauthorized(apiResult.outcome)
    /\ apiResult.req.auth # NULL
    /\ token = NULL /\ storedUser = NULL /\ location = "/login"
    /\ ~apiResult.returned

\* the requests of reqs equal to r, whether or not their sender is mounted
Sent(r, reqs) ==
    Cardinality({k \in 1..Len(reqs) :
                    [reqs[k] EXCEPT !.live = TRUE] = [r EXCEPT !.live = TRUE]})

\* C15: every request is sent with the Authorization header of the token
\* that is in localStorage when it is sent, and with no Authorization header
\* when there is no token; so a request sent after a logout never carries
\* the token of the session that ended.
C15_BearerToken ==
    [][\A k \in 1..Len(net') :
          Sent(net'[k], net') > Sent(net'[k], net) => net'[k].auth = token']_vars

\* after a logout: a request sent during the session is still in flight with
\* its token, a request sent since carries none
C15_Witness ==
    /\ token = NULL /\ authUser = NULL
    /\ \E i, j \in 1..Len(net) :
          i < j /\ net[i].auth = "jwt" /\ net[j].auth = NULL

\* the pages behind ProtectedRoute
ProtectedPages == {PageOf(path) : path \in ProtectedPaths}

\* the requests that the mount effect of a protected page sends
IsMountRequest(r) ==
    \/ r.fn = "createMealPlan" /\ r.owner = "MealPlannerPage"
    \/ r.fn = "getCurrentWeekPlan" /\ r.owner = "ShoppingPage"

\* C17: /meal-planner and /shopping are rendered only when a token is in
\* localStorage at render time; without one the router redirects to /login,
\* the protected page is not mounted and none of its data requests is sent.
C17_ProtectedRoutes ==
    [][/\ (page' \in ProtectedPages /\ location' # location) => token # NULL
       /\ \A k \in 1..Len(net') :
             (Sent(net'[k], net') > Sent(net'[k], net) /\ IsMountRequest(net'[k]))
                 => token # NULL /\ page' \in ProtectedPages
       /\ (/\ last'.op = "navigate" /\ location' # location
           /\ last'.path \in ProtectedPaths /\ token = NULL)
              => /\ location' = "/login"
                 /\ page' = "login"
                 /\ net' = Detached(net)]_vars

\* a protected path was entered without a token: the login page is shown and
\* no request is in flight
C17_Witness ==
    /\ last.op = "navigate" /\ last.path \in ProtectedPaths /\ ~last.isAuth
    /\ token = NULL
    /\ location = "/login" /\ page = "login"
    /\ net = <<>>

\* C18: a failed login (authService.login rejects, with any status, 401
\* included) leaves the stored session and the AuthContext user unchanged,
\* ends with loading false and a non-empty error on display and does not
\* navigate to '/'; a successful login sets the AuthContext user and
\* navigates to '/'.
C18_FailedLogin ==
    [][(last'.op = "login" /\ Len(net') < Len(net)) =>
          IF Resolves(last'.outcome)
          THEN authUser' # NULL /\ location' = "/"
          ELSE /\ token' = token /\ storedUser' = storedUser
               /\ authUser' = authUser
               /\ last'.live => ~loginPage'.loading /\ loginPage'.error # ""
               /\ location' = "/" => location = "/"]_vars

\* C20: handleToggleItem changes the local is_checked of the targeted item
\* only after the server call succeeds, to the negation of the status it was
\* given, and leaves every other item and field unchanged; if the request
\* fails, or if no list is loaded, the list is unchanged (and without a list
\* nothing is sent).
C20_ToggleFrame ==
    [][/\ (last'.op = "toggleItem" /\ Len(net') < Len(net)) =>
             IF last'.ok /\ last'.live
             THEN LET before == shopping.shoppingList
                      after  == shopping'.shoppingList
                  IN  /\ shopping' = [shopping EXCEPT !.shoppingList = after]
                      /\ after.list_id = before.list_id
                      /\ after.plan_id = before.plan_id
                      /\ after.total_items = before.total_items
                      /\ Len(after.items) = Len(before.items)
                      /\ \A k \in 1..Len(before.items) :
                            /\ after.items[k].item_id = before.items[k].item_id
                            /\ after.items[k].is_checked =
                                  IF before.items[k].item_id = last'.itemId
                                  THEN ~last'.currentStatus
                                  ELSE before.items[k].is_checked
             ELSE shopping' = shopping
       /\ (last'.op = "handleToggleItem" /\ (net' # net \/ ~last'.sent)) =>
             /\ shopping' = shopping
             /\ shopping.shoppingList = NullBody => net' = net]_vars

\* a toggle has succeeded on a list of several items: the targeted item has
\* the negated status, another item still has the status that was passed in
C20_Witness ==
    /\ last.op = "toggleItem" /\ last.ok /\ last.live
    /\ shopping.shoppingList # NullBody
    /\ \E k, j \in 1..Len(shopping.shoppingList.items) :
          /\ k # j
          /\ shopping.shoppingList.items[k].item_id = last.itemId
          /\ shopping.shoppingList.items[k].is_checked = ~last.currentStatus
          /\ shopping.shoppingList.items[j].is_checked = last.currentStatus

\* the requests of RecipeDetail among reqs
DetailRequests(reqs) == {k \in 1..Len(reqs) : reqs[k].owner = "RecipeDetail"}

\* C22: a call of handleAddToMealPlan made when no user is logged in sends
\* no request, neither getCurrentWeekPlan nor addMeal, and ends at once;
\* the day and meal selector, which holds the button that calls it, is never
\* on display without a logged-in user.
C22_NoUserNoRequest ==
    [][/\ (/\ authUser = NULL
           /\ last'.op = "handleAddToMealPlan" /\ last' # last
           /\ ~last'.planSettled)
             => /\ net' = net
                /\ detail' = detail
                /\ last'.ended /\ last'.addMeals = 0
       /\ ShowsMealSelector' => authUser' # NULL
       /\ (Cardinality(DetailRequests(net')) > Cardinality(DetailRequests(net))
             /\ detail.pc = "idle") => ShowsMealSelector]_vars

\* the user logged out with the selector open, and the handler was then
\* called: it has ended, nothing of RecipeDetail is in flight
C22_Witness ==
    /\ authUser = NULL
    /\ detail.recipe # 0 /\ detail.showMealSelector
    /\ last.op = "handleAddToMealPlan" /\ last.ended /\ ~last.planSettled
    /\ DetailRequests(net) = {}

\* the requests of reqs that the button clicked last has sent
BatchInFlight(reqs, event) ==
    {k \in 1..Len(reqs) : reqs[k].owner = BatchOf(event).button}

\* the button clicked last has had all its requests answered with success,
\* and the page still shows the list
BatchSucceeded ==
    /\ BatchOf(last).button # "none" /\ ~BatchOf(last).failed
    /\ BatchInFlight(net, last) = {}
    /\ page = "shopping" /\ shopping.shoppingList # NullBody

\* C21: once 'Mark All as Bought' was clicked and every toggle request it
\* sent has succeeded, every item of the list is checked, in whatever order
\* the responses arrived; after 'Clear Checks' every item is unchecked; and
\* the click sends a request for the items that are not in the target state,
\* none for the others.
C21_MarkAll ==
    [][/\ BatchSucceeded' =>
             \A k \in 1..Len(shopping'.shoppingList.items) :
                 shopping'.shoppingList.items[k].is_checked = BatchOf(last').target
       /\ (last'.op \in {"MarkAll", "ClearChecks"} /\ shopping.shoppingList # NullBody) =>
             /\ Len(net') - Len(net) =
                   Cardinality({k \in 1..Len(shopping.shoppingList.items) :
                       shopping.shoppingList.items[k].is_checked # BatchOf(last').target})
             /\ \A k \in Len(net) + 1..Len(net') :
                   \E j \in 1..Len(shopping.shoppingList.items) :
                       /\ shopping.shoppingList.items[j].item_id = net'[k].body.item_id
                       /\ shopping.shoppingList.items[j].is_checked # BatchOf(last').target
                       /\ net'[k].body.is_checked = BatchOf(last').target]_vars

=============================================================================
